---- MODULE Spec2Model ----
(***************************************************************************)
(* A model of trello/trelloclient.py: the TrelloClient constructor, the    *)
(* request primitive fetch_json, and the operations built on it            *)
(* (info_for_all_boards, get_board, get_list, get_card, list_hooks,        *)
(* create_hook, search).                                                   *)
(*                                                                         *)
(* Python values are modelled as follows.                                  *)
(*   - a string-valued slot holds a string; None there is the value None   *)
(*     below, the empty string is "".                                      *)
(*   - an object-valued slot (a dict argument, the OAuth1 object, a parsed *)
(*     body) holds <<>> for None and <<obj>> for an object.                *)
(*   - a dict is a function from its keys to its values.                   *)
(*   - a path or URL is a sequence of tokens; the token "/" at the head of *)
(*     a path is its leading separator character.                          *)
(* The HTTP transport (http_service) is a mock with a fixed answer per     *)
(* URL: a response with a status code, a text and a parsed body, or a      *)
(* transport-level exception.                                              *)
(***************************************************************************)
EXTENDS Integers, Sequences, FiniteSets, TLC

VARIABLES
    client,         \* the TrelloClient instance (self)
    transport,      \* the injected http_service: its answer for every URL
    callerHeaders,  \* a headers dict owned by the caller, reused across calls
    callerParams,   \* a query_params dict owned by the caller, reused across calls
    op,             \* the last operation called, with its arguments
    sent,           \* the transport requests the last operation dispatched, in order
    outcome,        \* what the last operation did: returned a value or raised
    heap,           \* the Board objects constructed by the last search, by reference
    nextObj,        \* the next fresh object reference
    calls           \* the number of operations called so far

vars == <<client, transport, callerHeaders, callerParams, op, sent, outcome,
          heap, nextObj, calls>>

(***************************************************************************)
(* Bounds of the model.                                                    *)
(***************************************************************************)
MaxCalls == 2
MaxFrag == 3

(***************************************************************************)
(* Python values.                                                          *)
(***************************************************************************)
None == "None"
NoObject == <<>>
Obj(x) == <<x>>

Truthy(v) == v # None /\ v # ""

\* Python's `a or b`: a when a is truthy, b otherwise.
PyOr(a, b) == IF Truthy(a) THEN a ELSE b

EmptyDict == [k \in {} |-> None]
DictSet(d, k, v) == [x \in (DOMAIN d) \cup {k} |-> IF x = k THEN v ELSE d[x]]

\* `not d` for a dict-valued argument: None and the empty dict are falsy.
FalsyObj(o) == o = NoObject \/ DOMAIN o[1] = {}

Last(s) == s[Len(s)]

(***************************************************************************)
(* Status codes tested by fetch_json and create_hook.                      *)
(***************************************************************************)
StatusOK == 200
StatusUnauthorized == 401

(***************************************************************************)
(* The transport's answers.                                                *)
(***************************************************************************)
Response(status, text, body) ==
    [kind |-> "response", status_code |-> status, text |-> text, json |-> body]

TransportFailure ==
    [kind |-> "error", status_code |-> 0, text |-> "", json |-> NoObject]

\* http_service.request / http_service.post on the mock: the answer fixed for
\* the URL, the fallback answer for any other URL.
Answer(tr, url) ==
    IF url \in DOMAIN tr.routes THEN tr.routes[url] ELSE tr.fallback

(***************************************************************************)
(* Outcomes of a call.                                                     *)
(***************************************************************************)
NoOutcome ==
    [kind |-> "none", exc |-> "", msg |-> <<>>, response |-> NoObject,
     value |-> NoObject]

Return(v) ==
    [kind |-> "return", exc |-> "", msg |-> <<>>, response |-> NoObject,
     value |-> Obj(v)]

Raise(exc, msg, resp) ==
    [kind |-> "raise", exc |-> exc, msg |-> msg, response |-> resp,
     value |-> NoObject]

(***************************************************************************)
(* TrelloClient.__init__                                                   *)
(***************************************************************************)
OAuth1(client_key, client_secret, resource_owner_key, resource_owner_secret) ==
    Obj([client_key |-> client_key, client_secret |-> client_secret,
         resource_owner_key |-> resource_owner_key,
         resource_owner_secret |-> resource_owner_secret])

SigningContextTokenOnly(api_key, api_secret, token, token_secret) ==
    IF Truthy(token)
    THEN OAuth1(api_key, api_secret, token, token_secret)
    ELSE NoObject

SigningContext(api_key, api_secret, token, token_secret) ==
    IF Truthy(token) \/ Truthy(token_secret)
    THEN OAuth1(api_key, api_secret, token, token_secret)
    ELSE NoObject

PublicOnly(token) == token = None

TrelloClient(api_key, api_secret, token, token_secret, http_service, proxies) ==
    [oauth |-> SigningContext(api_key, api_secret, token, token_secret),
     proxies |-> proxies,
     public_only |-> PublicOnly(token),
     api_key |-> api_key,
     api_secret |-> api_secret,
     resource_owner_key |-> token,
     resource_owner_secret |-> token_secret,
     http_service |-> http_service,
     all_info |-> NoObject]

(***************************************************************************)
(* TrelloClient.fetch_json                                                 *)
(***************************************************************************)
generate_user_agent == "py-trello"

json_dumps(post_args) == Obj(<<"json", post_args>>)

BaseUrl == "https://api.trello.com/1/"

\* Lines 238-240: strip a leading separator and prefix the base URL.
BuildUrl(uri_path) ==
    <<BaseUrl>> \o (IF uri_path[1] = "/" THEN Tail(uri_path) ELSE uri_path)

\* Lines 242-244: the key/token query parameters of an unsigned request.
AuthParams(self, query_params) ==
    IF self.oauth = NoObject
    THEN DictSet(DictSet(query_params, "key", self.api_key),
                 "token", self.api_secret)
    ELSE query_params

ClassifyByErrorRange(response, url) ==
    IF response.kind = "error"
    THEN Raise("TransportError", <<>>, NoObject)
    ELSE IF response.status_code = StatusUnauthorized
    THEN Raise("Unauthorized", <<response.text, " at ", url>>, Obj(response))
    ELSE IF response.status_code >= 400
    THEN Raise("ResourceUnavailable", <<response.text, " at ", url>>, Obj(response))
    ELSE Return(response.json)

\* Lines 247-257: an exception of the transport propagates; 401 raises
\* Unauthorized, any other status but 200 raises ResourceUnavailable, 200
\* returns response.json().
Classify(response, url) ==
    IF response.kind = "error"
    THEN Raise("TransportError", <<>>, NoObject)
    ELSE IF response.status_code = StatusUnauthorized
    THEN Raise("Unauthorized", <<response.text, " at ", url>>, Obj(response))
    ELSE IF response.status_code # StatusOK
    THEN Raise("ResourceUnavailable", <<response.text, " at ", url>>, Obj(response))
    ELSE Return(response.json)

\* Lines 211-250: the request handed to the transport, and the caller's
\* containers as the call leaves them.
BuildRequest(self, uri_path, http_method, headers, query_params, post_args, files) ==
    LET h0 == IF headers = NoObject THEN EmptyDict ELSE headers[1]
        q0 == IF query_params = NoObject THEN EmptyDict ELSE query_params[1]
        h1 == DictSet(h0, "User-Agent", generate_user_agent)
        data == IF files = NoObject /\ post_args # NoObject
                THEN json_dumps(post_args[1])
                ELSE NoObject
        h2 == IF http_method \in {"POST", "PUT", "DELETE"} /\ FalsyObj(files)
              THEN DictSet(h1, "Content-Type", "application/json; charset=utf-8")
              ELSE h1
        h3 == DictSet(h2, "Accept", "application/json")
        q1 == AuthParams(self, q0)
    IN  [via |-> "request", method |-> http_method, url |-> BuildUrl(uri_path),
         params |-> q1, headers |-> h3, data |-> data, auth |-> self.oauth,
         files |-> files, proxies |-> self.proxies]

DispatchRetrying(self, tr, request) ==
    [self |-> self,
     requests |-> IF Answer(tr, request.url).kind = "error"
                     \/ Answer(tr, request.url).status_code # StatusOK
                  THEN <<request, request>>
                  ELSE <<request>>,
     headers |-> request.headers,
     query_params |-> request.params,
     outcome |-> Classify(Answer(tr, request.url), request.url)]

\* Lines 247-257: the request is dispatched once and its response
\* classified. The result carries self and the two dicts as the call leaves
\* them.
Dispatch(self, tr, request) ==
    [self |-> self,
     requests |-> <<request>>,
     headers |-> request.headers,
     query_params |-> request.params,
     outcome |-> Classify(Answer(tr, request.url), request.url)]

FetchJson(self, tr, uri_path, http_method, headers, query_params, post_args, files) ==
    Dispatch(self, tr, BuildRequest(self, uri_path, http_method, headers,
                                    query_params, post_args, files))

\* fetch_json called with only a path (and, where given, query parameters).
Get(self, tr, uri_path, query_params) ==
    FetchJson(self, tr, uri_path, "GET", NoObject, query_params, NoObject, NoObject)

(***************************************************************************)
(* TrelloClient.info_for_all_boards                                        *)
(***************************************************************************)
InfoForAllBoards(self, tr, actions) ==
    IF self.public_only
    THEN [self |-> self, requests |-> <<>>, outcome |-> Return(None)]
    ELSE LET r == Get(self, tr, <<"/", "members/me/boards/all">>,
                      Obj([actions |-> actions]))
         IN  IF r.outcome.kind = "raise"
             THEN [self |-> r.self, requests |-> r.requests, outcome |-> r.outcome]
             ELSE [self |-> [r.self EXCEPT !.all_info = r.outcome.value],
                   requests |-> r.requests,
                   outcome |-> Return(None)]

(***************************************************************************)
(* Inputs of the request-layer specification.                              *)
(***************************************************************************)
Credential(v) == {None, "", v}

Clients(keys) ==
    { TrelloClient(k, s, t, ts, "http_service", EmptyDict) :
        k \in keys, s \in Credential("secret"), t \in Credential("tok"),
        ts \in Credential("tsecret") }

BoardJson(id) == Obj([id |-> id, name |-> "name", url |-> "url", desc |-> "desc",
                      closed |-> FALSE])

FailureResponses ==
    { Response(StatusUnauthorized, "unauthorized", NoObject),
      Response(404, "not found", NoObject),
      Response(500, "server error", NoObject),
      TransportFailure }

FetchResponses ==
    { Response(StatusOK, "ok", BoardJson("b1")),
      Response(201, "created", BoardJson("b1")),
      Response(204, "", NoObject) } \cup FailureResponses

FetchTransports ==
    { [routes |-> [u \in {BuildUrl(<<"boards/", "b1">>)} |-> r], fallback |-> f] :
        r \in FetchResponses,
        f \in { Response(StatusOK, "ok", Obj([boards |-> "all"])),
                Response(StatusUnauthorized, "unauthorized", NoObject) } }

Bodies ==
    { [post_args |-> NoObject, files |-> NoObject],
      [post_args |-> Obj([name |-> "n"]), files |-> NoObject],
      [post_args |-> Obj([name |-> "n"]), files |-> Obj([file |-> "f"])] }

Descriptors ==
    { [uri_path |-> p, http_method |-> m, reuse |-> ru,
       post_args |-> b.post_args, files |-> b.files] :
        p \in {<<"/", "boards/", "b1">>, <<"boards/", "b1">>},
        m \in {"GET", "POST"}, ru \in BOOLEAN, b \in Bodies }
    \ { d \in [uri_path : {<<"/", "boards/", "b1">>, <<"boards/", "b1">>},
               http_method : {"GET"}, reuse : BOOLEAN,
               post_args : {Obj([name |-> "n"])},
               files : {NoObject, Obj([file |-> "f"])}] : TRUE }

NoOp == [name |-> "none", repeat |-> FALSE]

InitCommon ==
    /\ callerHeaders = EmptyDict
    /\ callerParams = [fields |-> "name"]
    /\ op = NoOp
    /\ sent = <<>>
    /\ outcome = NoOutcome
    /\ heap = EmptyDict
    /\ nextObj = 1
    /\ calls = 0

InitFetch ==
    /\ client \in Clients({None, "key"})
    /\ transport \in FetchTransports
    /\ InitCommon

\* A caller calls fetch_json, passing either no headers and query_params or
\* its own two dicts.
FetchJsonCall ==
    /\ calls < MaxCalls
    /\ \E d \in Descriptors :
        LET r == FetchJson(client, transport, d.uri_path, d.http_method,
                           IF d.reuse THEN Obj(callerHeaders) ELSE NoObject,
                           IF d.reuse THEN Obj(callerParams) ELSE NoObject,
                           d.post_args, d.files)
        IN  /\ client' = r.self
            /\ callerHeaders' = IF d.reuse THEN r.headers ELSE callerHeaders
            /\ callerParams' = IF d.reuse THEN r.query_params ELSE callerParams
            /\ op' = [name |-> "fetch_json", desc |-> d,
                      repeat |-> op.name = "fetch_json" /\ op.desc = d]
            /\ sent' = r.requests
            /\ outcome' = r.outcome
    /\ calls' = calls + 1
    /\ UNCHANGED <<transport, heap, nextObj>>

InfoForAllBoardsCall ==
    /\ calls < MaxCalls
    /\ LET r == InfoForAllBoards(client, transport, "all")
       IN  /\ client' = r.self
           /\ op' = [name |-> "info_for_all_boards", repeat |-> FALSE]
           /\ sent' = r.requests
           /\ outcome' = r.outcome
    /\ calls' = calls + 1
    /\ UNCHANGED <<transport, callerHeaders, callerParams, heap, nextObj>>

NextFetch == FetchJsonCall \/ InfoForAllBoardsCall

SpecFetch == InitFetch /\ [][NextFetch]_vars

(***************************************************************************)
(* TrelloClient.list_hooks, _existing_hook_objs and create_hook            *)
(***************************************************************************)
ResolveTokenWithoutSecret(self, token) ==
    PyOr(token, self.resource_owner_key)

\* Lines 264 and 292: token or self.resource_owner_key or self.api_secret.
ResolveToken(self, token) ==
    PyOr(token, PyOr(self.resource_owner_key, self.api_secret))

WebHook(self, token, hook_id, desc, id_model, callback_url, active) ==
    [type |-> "WebHook", token |-> token, id |-> hook_id, desc |-> desc,
     id_model |-> id_model, callback_url |-> callback_url, active |-> active]

existing_hook_objs(self, hooks, token) ==
    [i \in 1..Len(hooks) |->
        WebHook(self, token, hooks[i].id, hooks[i].description,
                hooks[i].idModel, hooks[i].callbackURL, hooks[i].active)]

ListHooks(self, tr, token_arg) ==
    LET token == ResolveToken(self, token_arg)
    IN  IF token = None
        THEN [self |-> self, requests |-> <<>>,
              outcome |-> Raise("TokenError", <<>>, NoObject)]
        ELSE LET r == Get(self, tr, <<"/", "tokens/", token, "/webhooks">>, NoObject)
             IN  [self |-> r.self,
                  requests |-> r.requests,
                  outcome |-> IF r.outcome.kind = "raise"
                              THEN r.outcome
                              ELSE Return(existing_hook_objs(
                                       r.self, r.outcome.value[1][1], token))]

HookUrl(token) == <<"https://trello.com/1/tokens/", token, "/webhooks/">>

CreateHook(self, tr, callback_url, id_model, desc, token_arg) ==
    LET token == ResolveToken(self, token_arg)
        data0 == [callbackURL |-> callback_url, idModel |-> id_model,
                  description |-> desc]
        data == IF self.api_key # None
                THEN DictSet(data0, "key", self.api_key)
                ELSE data0
        request == [via |-> "post", method |-> "POST", url |-> HookUrl(token),
                    params |-> EmptyDict, headers |-> EmptyDict,
                    data |-> Obj(data), auth |-> self.oauth,
                    files |-> NoObject, proxies |-> self.proxies]
        response == Answer(tr, request.url)
    IN  IF token = None
        THEN [self |-> self, requests |-> <<>>,
              outcome |-> Raise("TokenError", <<>>, NoObject)]
        ELSE [self |-> self,
              requests |-> <<request>>,
              outcome |->
                IF response.kind = "error"
                THEN Raise("TransportError", <<>>, NoObject)
                ELSE IF response.status_code = StatusOK
                THEN Return(WebHook(self, token, response.json[1].id, desc,
                                    id_model, callback_url, TRUE))
                ELSE Raise("Exception",
                           <<"Webhook creating failed: ", response.text>>,
                           NoObject)]

(***************************************************************************)
(* Inputs of the webhook specification.                                    *)
(***************************************************************************)
HookJson ==
    [id |-> "h1", description |-> "d", idModel |-> "m1",
     callbackURL |-> "http://cb", active |-> TRUE]

HookTokens == {"", "secret", "tok", "arg"}

HookTransports ==
    { [routes |->
         [u \in { BuildUrl(<<"tokens/", t, "/webhooks">>) : t \in HookTokens }
                \cup { HookUrl(t) : t \in HookTokens } |->
            IF u[1] = BaseUrl THEN l ELSE c],
       fallback |-> Response(404, "not found", NoObject)] :
        l \in { Response(StatusOK, "ok", Obj(<<HookJson>>)),
                Response(StatusOK, "ok", Obj(<<>>)),
                Response(StatusUnauthorized, "unauthorized", NoObject),
                TransportFailure },
        c \in { Response(StatusOK, "ok", Obj([id |-> "h1"])),
                Response(500, "server error", NoObject),
                TransportFailure } }

InitHooks ==
    /\ client \in Clients({None, "key"})
    /\ transport \in HookTransports
    /\ InitCommon

ListHooksCall ==
    /\ calls < MaxCalls
    /\ \E t \in Credential("arg") :
        LET r == ListHooks(client, transport, t)
        IN  /\ client' = r.self
            /\ op' = [name |-> "list_hooks", token |-> t, repeat |-> FALSE]
            /\ sent' = r.requests
            /\ outcome' = r.outcome
    /\ calls' = calls + 1
    /\ UNCHANGED <<transport, callerHeaders, callerParams, heap, nextObj>>

CreateHookCall ==
    /\ calls < MaxCalls
    /\ \E t \in Credential("arg"), desc \in {None, "d"} :
        LET r == CreateHook(client, transport, "http://cb", "m1", desc, t)
        IN  /\ client' = r.self
            /\ op' = [name |-> "create_hook", token |-> t, repeat |-> FALSE]
            /\ sent' = r.requests
            /\ outcome' = r.outcome
    /\ calls' = calls + 1
    /\ UNCHANGED <<transport, callerHeaders, callerParams, heap, nextObj>>

NextHooks == ListHooksCall \/ CreateHookCall

SpecHooks == InitHooks /\ [][NextHooks]_vars

(***************************************************************************)
(* The domain objects used by get_board, get_list, get_card and search:    *)
(* Board, List, Card, Member and Organization hold data. A Board built by  *)
(* its constructor alone is a stub; a Board records whether fetch() has    *)
(* populated it.                                                           *)
(***************************************************************************)
Board(self, board_id) ==
    [type |-> "Board", id |-> board_id, name |-> None, url |-> None,
     desc |-> None, fetched |-> FALSE]

BoardFromJson(self, json_obj) ==
    [type |-> "Board", id |-> json_obj.id, name |-> json_obj.name,
     url |-> json_obj.url, desc |-> json_obj.desc, fetched |-> FALSE]

ListFromJson(board, json_obj) ==
    [type |-> "List", id |-> json_obj.id, board |-> board]

CardFromJson(parent, json_obj) ==
    [type |-> "Card", id |-> json_obj.id, parent |-> parent]

MemberFromJson(self, json_obj) == [type |-> "Member", id |-> json_obj.id]

OrganizationFromJson(self, json_obj) ==
    [type |-> "Organization", id |-> json_obj.id]

(***************************************************************************)
(* TrelloClient.get_board, get_list, get_card                              *)
(***************************************************************************)
GetBoard(self, tr, board_id) ==
    LET r == Get(self, tr, <<"/", "boards/", board_id>>, NoObject)
    IN  [self |-> r.self,
         requests |-> r.requests,
         outcome |-> IF r.outcome.kind = "raise"
                     THEN r.outcome
                     ELSE Return(BoardFromJson(r.self, r.outcome.value[1][1]))]

GetList(self, tr, list_id) ==
    LET r1 == Get(self, tr, <<"/", "lists/", list_id>>, NoObject)
    IN  IF r1.outcome.kind = "raise"
        THEN [self |-> r1.self, requests |-> r1.requests, outcome |-> r1.outcome]
        ELSE LET list_json == r1.outcome.value[1][1]
                 r2 == GetBoard(r1.self, tr, list_json.idBoard)
             IN  [self |-> r2.self,
                  requests |-> r1.requests \o r2.requests,
                  outcome |-> IF r2.outcome.kind = "raise"
                              THEN r2.outcome
                              ELSE Return(ListFromJson(r2.outcome.value[1],
                                                       list_json))]

GetCardBoardFirst(self, tr, card_id) ==
    LET r1 == Get(self, tr, <<"/", "cards/", card_id>>,
                  Obj([customFieldItems |-> "true"]))
    IN  IF r1.outcome.kind = "raise"
        THEN [self |-> r1.self, requests |-> r1.requests, outcome |-> r1.outcome]
        ELSE
    LET card_json == r1.outcome.value[1][1]
        r2 == GetBoard(r1.self, tr, card_json.idBoard)
    IN  IF r2.outcome.kind = "raise"
        THEN [self |-> r2.self, requests |-> r1.requests \o r2.requests,
              outcome |-> r2.outcome]
        ELSE
    LET r3 == Get(r2.self, tr, <<"/", "lists/", card_json.idList>>, NoObject)
    IN  [self |-> r3.self,
         requests |-> r1.requests \o r2.requests \o r3.requests,
         outcome |-> IF r3.outcome.kind = "raise"
                     THEN r3.outcome
                     ELSE Return(CardFromJson(
                              ListFromJson(r2.outcome.value[1],
                                           r3.outcome.value[1][1]),
                              card_json))]

\* Lines 176-179: the card, then its list, then its board; an exception of
\* any of the three calls ends get_card there.
GetCard(self, tr, card_id) ==
    LET r1 == Get(self, tr, <<"/", "cards/", card_id>>,
                  Obj([customFieldItems |-> "true"]))
    IN  IF r1.outcome.kind = "raise"
        THEN [self |-> r1.self, requests |-> r1.requests, outcome |-> r1.outcome]
        ELSE
    LET card_json == r1.outcome.value[1][1]
        r2 == Get(r1.self, tr, <<"/", "lists/", card_json.idList>>, NoObject)
    IN  IF r2.outcome.kind = "raise"
        THEN [self |-> r2.self, requests |-> r1.requests \o r2.requests,
              outcome |-> r2.outcome]
        ELSE
    LET list_json == r2.outcome.value[1][1]
        r3 == GetBoard(r2.self, tr, card_json.idBoard)
    IN  [self |-> r3.self,
         requests |-> r1.requests \o r2.requests \o r3.requests,
         outcome |-> IF r3.outcome.kind = "raise"
                     THEN r3.outcome
                     ELSE Return(CardFromJson(
                              ListFromJson(r3.outcome.value[1], list_json),
                              card_json))]

(***************************************************************************)
(* Inputs of the card specification.                                       *)
(***************************************************************************)
TwoClients ==
    { TrelloClient("key", "secret", None, None, "http_service", EmptyDict),
      TrelloClient("key", "secret", "tok", "tsecret", "http_service", EmptyDict) }

CardResponses ==
    { Response(StatusOK, "ok", Obj([id |-> "c1", idList |-> l, idBoard |-> b])) :
        l \in {"l1", "l2"}, b \in {"b1", "b2"} }
        \cup FailureResponses

ListResponses ==
    { Response(StatusOK, "ok", Obj([id |-> "l1", idBoard |-> "b1"])) }
        \cup FailureResponses

BoardResponses(id) ==
    { Response(StatusOK, "ok", BoardJson(id)) } \cup FailureResponses

CardUrl == BuildUrl(<<"cards/", "c1">>)
ListUrl == BuildUrl(<<"lists/", "l1">>)
BoardUrl(id) == BuildUrl(<<"boards/", id>>)

CardTransports ==
    { [routes |-> [u \in {CardUrl, ListUrl, BoardUrl("b1")} |->
                      IF u = CardUrl THEN c ELSE IF u = ListUrl THEN l ELSE b],
       fallback |-> Response(404, "not found", NoObject)] :
        c \in CardResponses, l \in ListResponses, b \in BoardResponses("b1") }

InitCard ==
    /\ client \in TwoClients
    /\ transport \in CardTransports
    /\ InitCommon

Called(name, r) ==
    /\ client' = r.self
    /\ op' = [name |-> name, repeat |-> FALSE]
    /\ sent' = r.requests
    /\ outcome' = r.outcome
    /\ calls' = calls + 1
    /\ UNCHANGED <<transport, callerHeaders, callerParams, heap, nextObj>>

GetBoardCall == calls < MaxCalls /\ Called("get_board", GetBoard(client, transport, "b1"))

GetListCall == calls < MaxCalls /\ Called("get_list", GetList(client, transport, "l1"))

GetCardCall == calls < MaxCalls /\ Called("get_card", GetCard(client, transport, "c1"))

NextCard == GetBoardCall \/ GetListCall \/ GetCardCall

SpecCard == InitCard /\ [][NextCard]_vars

(***************************************************************************)
(* TrelloClient.search                                                     *)
(*                                                                         *)
(* Board objects are kept on a heap, by reference, so that two entries of  *)
(* the result can be the same instance. The state of the loops is          *)
(*   results, board_cache (board id -> reference), heap, next (the next    *)
(*   fresh reference), requests (dispatched so far) and raised (the        *)
(*   exception that ended the call, if any).                               *)
(***************************************************************************)
CardsLimit == 10

JsonGet(json_obj, key) == IF key \in DOMAIN json_obj THEN json_obj[key] ELSE <<>>

BoardEntry(ref) == [type |-> "Board", ref |-> ref]

\* Board.fetch(): one fetch_json('/boards/' + id), then the fields are set.
BoardFetched(board, r) ==
    [requests |-> r.requests,
     outcome |-> r.outcome,
     board |-> IF r.outcome.kind = "raise"
               THEN board
               ELSE [board EXCEPT !.name = r.outcome.value[1][1].name,
                                  !.url = r.outcome.value[1][1].url,
                                  !.desc = r.outcome.value[1][1].desc,
                                  !.fetched = TRUE]]

BoardFetch(self, tr, board) ==
    BoardFetched(board, Get(self, tr, <<"/", "boards/", board.id>>, NoObject))

BoardStepDropRepeated(self, st, board_json) ==
    IF board_json.id \notin DOMAIN st.board_cache
    THEN [st EXCEPT
            !.board_cache = DictSet(@, board_json.id, st.next),
            !.heap = DictSet(@, st.next, BoardFromJson(self, board_json)),
            !.next = @ + 1,
            !.results = Append(@, BoardEntry(st.next))]
    ELSE st

\* Lines 366-371: one board fragment.
BoardStep(self, st, board_json) ==
    IF board_json.id \notin DOMAIN st.board_cache
    THEN [st EXCEPT
            !.board_cache = DictSet(@, board_json.id, st.next),
            !.heap = DictSet(@, st.next, BoardFromJson(self, board_json)),
            !.next = @ + 1,
            !.results = Append(@, BoardEntry(st.next))]
    ELSE [st EXCEPT
            !.results = Append(@, BoardEntry(st.board_cache[board_json.id]))]

\* Lines 376-383 with f the result of the board's fetch(): the board is
\* cached before it is fetched, and the card is appended unless fetch() raised.
CardAttach(st, card_json, f) ==
    IF f.outcome.kind = "raise"
    THEN [st EXCEPT
            !.board_cache = DictSet(@, card_json.idBoard, st.next),
            !.heap = DictSet(@, st.next, f.board),
            !.next = @ + 1,
            !.requests = @ \o f.requests,
            !.raised = Obj(f.outcome)]
    ELSE [st EXCEPT
            !.board_cache = DictSet(@, card_json.idBoard, st.next),
            !.heap = DictSet(@, st.next, f.board),
            !.next = @ + 1,
            !.requests = @ \o f.requests,
            !.results = Append(@, CardFromJson(st.next, card_json))]

CardStepMiss(self, tr, st, card_json) ==
    CardAttach(st, card_json,
               BoardFetch(self, tr, Board(self, card_json.idBoard)))

CardStepNoCache(self, tr, st, card_json) ==
    CardStepMiss(self, tr, st, card_json)

CardStepNoFetch(self, tr, st, card_json) ==
    IF card_json.idBoard \notin DOMAIN st.board_cache
    THEN [st EXCEPT
            !.board_cache = DictSet(@, card_json.idBoard, st.next),
            !.heap = DictSet(@, st.next, Board(self, card_json.idBoard)),
            !.next = @ + 1,
            !.results = Append(@, CardFromJson(st.next, card_json))]
    ELSE [st EXCEPT
            !.results = Append(@, CardFromJson(st.board_cache[card_json.idBoard],
                                               card_json))]

CardStepSwallow(self, tr, st, card_json) ==
    IF card_json.idBoard \notin DOMAIN st.board_cache
    THEN [CardStepMiss(self, tr, st, card_json) EXCEPT !.raised = NoObject]
    ELSE [st EXCEPT
            !.results = Append(@, CardFromJson(st.board_cache[card_json.idBoard],
                                               card_json))]

\* Lines 373-383: one card fragment.
CardStep(self, tr, st, card_json) ==
    IF card_json.idBoard \notin DOMAIN st.board_cache
    THEN CardStepMiss(self, tr, st, card_json)
    ELSE [st EXCEPT
            !.results = Append(@, CardFromJson(st.board_cache[card_json.idBoard],
                                               card_json))]

RECURSIVE BoardLoop(_, _, _)
BoardLoop(self, st, boards) ==
    IF boards = <<>>
    THEN st
    ELSE BoardLoop(self, BoardStep(self, st, Head(boards)), Tail(boards))

\* The loop over the cards ends at the first exception.
RECURSIVE CardLoop(_, _, _, _)
CardLoop(self, tr, st, cards) ==
    IF cards = <<>> \/ st.raised # NoObject
    THEN st
    ELSE CardLoop(self, tr, CardStep(self, tr, st, Head(cards)), Tail(cards))

\* Lines 336-357.
SearchParams(query, partial_match) ==
    LET q0 == [query |-> query]
        q1 == IF partial_match THEN DictSet(q0, "partial", "true") ELSE q0
        q2 == DictSet(q1, "cards_limit", CardsLimit)
        q3 == DictSet(q2, "board_fields", <<"name,url,desc,closed">>)
        q4 == DictSet(q3, "member_fields", <<"fullName,initials,username">>)
    IN  DictSet(q4, "organization_fields", <<"name,url,desc">>)

SearchStart(next, r) ==
    [results |-> <<>>, board_cache |-> EmptyDict, heap |-> EmptyDict,
     next |-> next, requests |-> r.requests, raised |-> NoObject]

SearchDone(self, st, out) ==
    [self |-> self, requests |-> st.requests, outcome |-> out,
     heap |-> st.heap, next |-> st.next]

\* Lines 385-392, or the exception that ended the loop over the cards.
SearchFinish(self, st, members, orgs) ==
    IF st.raised # NoObject
    THEN SearchDone(self, st, st.raised[1])
    ELSE SearchDone(self, st, Return(
             st.results
             \o [i \in 1..Len(members) |-> MemberFromJson(self, members[i])]
             \o [i \in 1..Len(orgs) |-> OrganizationFromJson(self, orgs[i])]))

\* Lines 363-392.
SearchCollect(self, tr, st, json_obj) ==
    SearchFinish(self,
                 CardLoop(self, tr,
                          BoardLoop(self, st, JsonGet(json_obj, "boards")),
                          JsonGet(json_obj, "cards")),
                 JsonGet(json_obj, "members"),
                 JsonGet(json_obj, "organizations"))

\* Lines 359-361 with r the result of fetch_json('/search').
SearchResponse(tr, next, r) ==
    IF r.outcome.kind = "raise"
    THEN SearchDone(r.self, SearchStart(next, r), r.outcome)
    ELSE IF FalsyObj(r.outcome.value[1])
    THEN SearchDone(r.self, SearchStart(next, r), Return(<<>>))
    ELSE SearchCollect(r.self, tr, SearchStart(next, r), r.outcome.value[1][1])

\* Lines 336-392. next is the first free reference; the result carries the
\* heap of the Board objects the call constructed.
Search(self, tr, query, partial_match, next) ==
    SearchResponse(tr, next,
                   Get(self, tr, <<"/", "search">>,
                       Obj(SearchParams(query, partial_match))))

(***************************************************************************)
(* Inputs of the search specification: every search response with at most  *)
(* MaxFrag fragments over two board ids, each answer of the two boards'    *)
(* URLs.                                                                   *)
(***************************************************************************)
BoardIds == {"b1", "b2"}

BoardFragment(id) == [id |-> id, name |-> "name", url |-> "url", desc |-> "desc"]

Shapes ==
    { sh \in [boards : 0..MaxFrag, cards : 0..MaxFrag, members : 0..MaxFrag,
              organizations : 0..MaxFrag] :
        sh.boards + sh.cards + sh.members + sh.organizations <= MaxFrag }

\* A search response body; with sparse, a category without fragments has no
\* key in the body.
SearchJson(bs, cs, nm, no, sparse) ==
    LET lists == [boards |-> [i \in 1..Len(bs) |-> BoardFragment(bs[i])],
                  cards |-> [i \in 1..Len(cs) |->
                                [id |-> ToString(i), idBoard |-> cs[i]]],
                  members |-> [i \in 1..nm |-> [id |-> ToString(i)]],
                  organizations |-> [i \in 1..no |-> [id |-> ToString(i)]],
                  options |-> <<>>]
        keys == { k \in DOMAIN lists : k = "options" \/ ~sparse \/ lists[k] # <<>> }
    IN  [k \in keys |-> lists[k]]

SearchBodies ==
    { NoObject, Obj(EmptyDict) } \cup
    UNION { { Obj(SearchJson(bs, cs, sh.members, sh.organizations, sparse)) :
                bs \in [1..sh.boards -> BoardIds],
                cs \in [1..sh.cards -> BoardIds],
                sparse \in BOOLEAN } : sh \in Shapes }

SearchUrl == BuildUrl(<<"search">>)

BoardFetchResponses(id) ==
    { Response(StatusOK, "ok", Obj([id |-> id, name |-> "fetched name",
                                    url |-> "fetched url", desc |-> "fetched desc"])),
      Response(StatusUnauthorized, "unauthorized", NoObject),
      Response(404, "not found", NoObject),
      TransportFailure }

SearchTransports ==
    { [routes |-> [u \in {SearchUrl, BoardUrl("b1"), BoardUrl("b2")} |->
                      IF u = SearchUrl THEN sr
                      ELSE IF u = BoardUrl("b1") THEN x1 ELSE x2],
       fallback |-> Response(404, "not found", NoObject)] :
        sr \in { Response(StatusOK, "ok", b) : b \in SearchBodies }
                 \cup FailureResponses,
        x1 \in BoardFetchResponses("b1"),
        x2 \in BoardFetchResponses("b2") }

InitSearch ==
    /\ client \in TwoClients
    /\ transport \in SearchTransports
    /\ InitCommon

SearchCall ==
    /\ calls < MaxCalls
    /\ \E partial_match \in BOOLEAN :
        LET r == Search(client, transport, "q", partial_match, nextObj)
        IN  /\ client' = r.self
            /\ op' = [name |-> "search", partial_match |-> partial_match,
                      base |-> nextObj, after |-> outcome.kind, repeat |-> FALSE]
            /\ sent' = r.requests
            /\ outcome' = r.outcome
            /\ heap' = r.heap
            /\ nextObj' = r.next
    /\ calls' = calls + 1
    /\ UNCHANGED <<transport, callerHeaders, callerParams>>

NextSearch == SearchCall

SpecSearch == InitSearch /\ [][NextSearch]_vars

(***************************************************************************)
(* Properties of the request layer (SpecFetch).                            *)
(***************************************************************************)
Signed == client.oauth # NoObject

FetchRequests == { i \in 1..Len(sent) : sent[i].via = "request" }

\* C1: the constructor creates a signing context if and only if token or
\* token_secret is non-empty; every request of a client without one carries
\* key = api_key and token = api_secret as query parameters, and every
\* request of a client with one carries it as auth and no key/token
\* query parameter.
C1_SigningDecidesAuth ==
    /\ Signed <=> (Truthy(client.resource_owner_key)
                    \/ Truthy(client.resource_owner_secret))
    /\ Signed => client.oauth = OAuth1(client.api_key, client.api_secret,
                                       client.resource_owner_key,
                                       client.resource_owner_secret)
    /\ \A i \in FetchRequests :
        IF Signed
        THEN /\ sent[i].auth = client.oauth
             /\ "key" \notin DOMAIN sent[i].params
             /\ "token" \notin DOMAIN sent[i].params
        ELSE /\ sent[i].auth = NoObject
             /\ "key" \in DOMAIN sent[i].params
             /\ "token" \in DOMAIN sent[i].params
             /\ sent[i].params["key"] = client.api_key
             /\ sent[i].params["token"] = client.api_secret

C1_Witness ==
    /\ op.name = "fetch_json"
    /\ client.resource_owner_key = ""
    /\ client.resource_owner_secret = "tsecret"
    /\ Len(sent) = 1
    /\ sent[1].auth = client.oauth
    /\ sent[1].params = [fields |-> "name"]

\* C2: the outcome of fetch_json is decided by the status code alone: 200
\* returns the parsed body, 401 raises Unauthorized, any other status raises
\* ResourceUnavailable, and both errors carry the response text, the URL and
\* the response.
C2_StatusDecidesOutcome ==
    op.name = "fetch_json" =>
        LET url == sent[1].url
            resp == Answer(transport, url)
            carried == /\ outcome.kind = "raise"
                       /\ outcome.msg = <<resp.text, " at ", url>>
                       /\ outcome.response = Obj(resp)
        IN  resp.kind = "response" =>
              IF resp.status_code = 200
              THEN outcome.kind = "return" /\ outcome.value = Obj(resp.json)
              ELSE IF resp.status_code = 401
              THEN carried /\ outcome.exc = "Unauthorized"
              ELSE carried /\ outcome.exc = "ResourceUnavailable"

C2_Witness ==
    /\ op.name = "fetch_json"
    /\ Answer(transport, sent[1].url).status_code = 201
    /\ outcome.exc = "ResourceUnavailable"
    /\ outcome.msg = <<"created", " at ", <<BaseUrl, "boards/", "b1">>>>

\* C6: a fetch_json call dispatches exactly one request and leaves the
\* client as it was, and a GET descriptor issued twice in a row sends the
\* same request and gives the same result, also with the caller's dicts
\* reused.
C6_OneRequestNoMutation ==
    [][ op'.name = "fetch_json" =>
          /\ client' = client
          /\ Len(sent') = 1
          /\ (op'.repeat /\ op'.desc.http_method = "GET") =>
                (sent' = sent /\ outcome' = outcome) ]_vars

C6_Witness ==
    /\ op.name = "fetch_json"
    /\ op.repeat
    /\ op.desc.reuse
    /\ op.desc.http_method = "GET"
    /\ ~Signed
    /\ Answer(transport, sent[1].url).status_code = 500
    /\ Len(sent) = 1
    /\ callerParams = sent[1].params
    /\ "key" \in DOMAIN callerParams

\* C10: public_only is true exactly when the client has no signing context,
\* so info_for_all_boards is skipped exactly for clients whose requests are
\* not signed.
C10_ModeIndicatorsAgree ==
    /\ client.public_only <=> ~Signed
    /\ op.name = "info_for_all_boards" => (sent = <<>> <=> ~Signed)

(***************************************************************************)
(* Properties of the webhook operations (SpecHooks).                       *)
(***************************************************************************)
HookOp == op.name \in {"list_hooks", "create_hook"}

\* The token in the URL of a webhook request.
UrlToken(request) ==
    IF request.via = "post" THEN request.url[2] ELSE request.url[3]

FirstTruthy(a, b, c) == IF Truthy(a) THEN a ELSE IF Truthy(b) THEN b ELSE c

C4_WitnessRaised ==
    /\ op.name = "create_hook"
    /\ op.token = None
    /\ client.resource_owner_key = None
    /\ client.api_secret = None
    /\ client.resource_owner_secret = "tsecret"
    /\ outcome.exc = "TokenError"
    /\ sent = <<>>

Succeeded(request) ==
    LET resp == Answer(transport, request.url)
    IN  resp.kind = "response" /\ resp.status_code = 200

\* The exception a failed HTTP call gives its caller.
ExpectedError(request) ==
    LET resp == Answer(transport, request.url)
    IN  IF resp.kind = "error" THEN "TransportError"
        ELSE IF resp.status_code = 401 THEN "Unauthorized"
        ELSE "ResourceUnavailable"

\* C9: get_card issues its calls in the order card, list, board, each only
\* after the previous one returned 200; it returns a card only after all
\* three succeeded, and the first failing call is the last one issued and
\* its error is the one raised.
C9_CardListBoardInOrder ==
    op.name = "get_card" =>
        /\ Len(sent) \in 1..3
        /\ sent[1].url = <<BaseUrl, "cards/", "c1">>
        /\ Len(sent) >= 2 =>
              sent[2].url = <<BaseUrl, "lists/",
                              Answer(transport, sent[1].url).json[1].idList>>
        /\ Len(sent) >= 3 =>
              sent[3].url = <<BaseUrl, "boards/",
                              Answer(transport, sent[1].url).json[1].idBoard>>
        /\ \A k \in 1..Len(sent) :
              IF Succeeded(sent[k])
              THEN k < 3 => Len(sent) > k
              ELSE /\ Len(sent) = k
                   /\ outcome.kind = "raise"
                   /\ outcome.exc = ExpectedError(sent[k])
        /\ outcome.kind = "return" <=>
              (Len(sent) = 3 /\ \A k \in 1..3 : Succeeded(sent[k]))
        /\ outcome.kind = "return" =>
              /\ outcome.value[1].type = "Card"
              /\ outcome.value[1].id = "c1"
              /\ outcome.value[1].parent.id = "l1"
              /\ outcome.value[1].parent.board.id = "b1"

C9_Witness ==
    /\ op.name = "get_card"
    /\ Len(sent) = 2
    /\ Succeeded(sent[1])
    /\ sent[2].url = <<BaseUrl, "lists/", "l1">>
    /\ Answer(transport, <<BaseUrl, "boards/", "b1">>).status_code = 200
    /\ outcome.exc = "Unauthorized"

C9_WitnessReturned ==
    /\ op.name = "get_card"
    /\ Len(sent) = 3
    /\ outcome.kind = "return"

(***************************************************************************)
(* Properties of search (SpecSearch).                                      *)
(***************************************************************************)
SearchOp == op.name = "search"

Returned == SearchOp /\ outcome.kind = "return"

Results == outcome.value[1]

\* The answer of the /search URL has status 200 and a non-empty body.
HasBody ==
    /\ Succeeded([url |-> SearchUrl])
    /\ ~FalsyObj(Answer(transport, SearchUrl).json)

Fragments(key) == JsonGet(Answer(transport, SearchUrl).json[1], key)

NB == Len(Fragments("boards"))
NC == Len(Fragments("cards"))
NM == Len(Fragments("members"))
NO == Len(Fragments("organizations"))

ListedIds == { Fragments("boards")[i].id : i \in 1..NB }

CardOnlyIds == { Fragments("cards")[i].idBoard : i \in 1..NC } \ ListedIds

\* The index of the first card fragment that references board b.
FirstCard(b) ==
    CHOOSE i \in 1..NC :
        /\ Fragments("cards")[i].idBoard = b
        /\ \A j \in 1..(i - 1) : Fragments("cards")[j].idBoard # b

Fetches(b) == { k \in 1..Len(sent) : sent[k].url = <<BaseUrl, "boards/", b>> }

Instances(b) == { ref \in DOMAIN heap : heap[ref].id = b }

\* C3: within one search call there is at most one Board instance and at
\* most one fetch per board id; every board id referenced by cards and
\* absent from the boards list has exactly one instance and one fetch, issued
\* in the order of the first cards that reference them, and every card with
\* that idBoard has that instance as its parent; the instances are constructed
\* by the call itself, none is kept from an earlier call.
C3_OneBoardPerId ==
    SearchOp =>
        /\ \A b \in BoardIds :
              Cardinality(Instances(b)) <= 1 /\ Cardinality(Fetches(b)) <= 1
        /\ \A ref \in DOMAIN heap : op.base <= ref /\ ref < nextObj
        /\ (Returned /\ HasBody) =>
              /\ \A b \in CardOnlyIds :
                    /\ Cardinality(Instances(b)) = 1
                    /\ Cardinality(Fetches(b)) = 1
                    /\ \A i \in 1..NC :
                          Fragments("cards")[i].idBoard = b =>
                              Results[NB + i].parent \in Instances(b)
              /\ \A b \in BoardIds \ CardOnlyIds : Fetches(b) = {}
              /\ \A b, c \in CardOnlyIds :
                    FirstCard(b) < FirstCard(c) =>
                        \A k \in Fetches(b), l \in Fetches(c) : k < l

C3_Witness ==
    /\ Returned
    /\ HasBody
    /\ calls = 2
    /\ op.base > 1
    /\ NB = 1
    /\ NC = 2
    /\ Fragments("boards")[1].id = "b2"
    /\ Fragments("cards")[1].idBoard = "b1"
    /\ Fragments("cards")[2].idBoard = "b1"
    /\ Len(sent) = 2
    /\ Results[2].parent = Results[3].parent

\* C5: the sequence returned for a non-empty response holds one entry per
\* board fragment, then per card, member and organization fragment, each
\* category in the response's order, a repeated board id giving the same
\* object again; an empty or null response gives the empty sequence.
C5_ResultOrder ==
    (SearchOp /\ Succeeded([url |-> SearchUrl])) =>
        IF ~HasBody
        THEN outcome = Return(<<>>) /\ Len(sent) = 1
        ELSE Returned =>
              /\ Len(Results) = NB + NC + NM + NO
              /\ \A i \in 1..NB :
                    /\ Results[i].type = "Board"
                    /\ heap[Results[i].ref].id = Fragments("boards")[i].id
                    /\ \A j \in 1..NB :
                          Fragments("boards")[i].id = Fragments("boards")[j].id
                              => Results[i].ref = Results[j].ref
              /\ \A i \in 1..NC :
                    /\ Results[NB + i].type = "Card"
                    /\ Results[NB + i].id = Fragments("cards")[i].id
                    /\ heap[Results[NB + i].parent].id
                          = Fragments("cards")[i].idBoard
              /\ \A i \in 1..NM :
                    /\ Results[NB + NC + i].type = "Member"
                    /\ Results[NB + NC + i].id = Fragments("members")[i].id
              /\ \A i \in 1..NO :
                    /\ Results[NB + NC + NM + i].type = "Organization"
                    /\ Results[NB + NC + NM + i].id
                          = Fragments("organizations")[i].id

C5_Witness ==
    /\ Returned
    /\ HasBody
    /\ NB = 2
    /\ NM = 1
    /\ Fragments("boards")[1].id = Fragments("boards")[2].id
    /\ Len(Results) = 3
    /\ Results[1] = Results[2]
    /\ Results[3].type = "Member"

C5_WitnessEmpty ==
    /\ SearchOp
    /\ Answer(transport, SearchUrl).json = NoObject
    /\ outcome = Return(<<>>)

\* C7 as claimed: the parent board of every card in a returned sequence has
\* been fetched, whichever way it entered the cache.
C7_EveryParentFetched ==
    (Returned /\ HasBody) =>
        \A i \in 1..NC : heap[Results[NB + i].parent].fetched

\* C7 as amended: the parent of a card whose idBoard is absent from the
\* boards list has been fetched before it was attached; the parent of a card
\* whose idBoard is in the boards list is the Board built from that fragment,
\* which search does not fetch.
C7_UnlistedParentFetched ==
    (Returned /\ HasBody) =>
        \A i \in 1..NC :
            IF Fragments("cards")[i].idBoard \in ListedIds
            THEN /\ ~heap[Results[NB + i].parent].fetched
                 /\ \E j \in 1..NB :
                       /\ Results[j].ref = Results[NB + i].parent
                       /\ heap[Results[j].ref].name = Fragments("boards")[j].name
                 /\ Fetches(Fragments("cards")[i].idBoard) = {}
            ELSE /\ heap[Results[NB + i].parent].fetched
                 /\ heap[Results[NB + i].parent].name
                       = Answer(transport,
                                <<BaseUrl, "boards/",
                                  Fragments("cards")[i].idBoard>>).json[1].name

C7_Witness ==
    /\ Returned
    /\ HasBody
    /\ NB = 1
    /\ NC = 2
    /\ Fragments("cards")[1].idBoard \in ListedIds
    /\ Fragments("cards")[2].idBoard \notin ListedIds
    /\ ~heap[Results[2].parent].fetched
    /\ heap[Results[3].parent].fetched

\* The state a search leaves behind when one of its HTTP calls failed, and
\* the calls every search starts with.
SearchAbortState ==
    SearchOp =>
        /\ sent[1].url = SearchUrl
        /\ (\E k \in 1..Len(sent) : ~Succeeded(sent[k])) =>
              /\ outcome.kind = "raise"
              /\ outcome.exc = ExpectedError(Last(sent))
              /\ outcome.value = NoObject
              /\ \A k \in 1..(Len(sent) - 1) : Succeeded(sent[k])
        /\ (HasBody /\ CardOnlyIds # {}) =>
              /\ Len(sent) >= 2
              /\ \E b \in CardOnlyIds :
                    /\ \A c \in CardOnlyIds : FirstCard(b) <= FirstCard(c)
                    /\ sent[2].url = <<BaseUrl, "boards/", b>>

\* C8: when an HTTP call of a search fails, the search raises that call's
\* error, returns nothing, and the failing call is the last one issued; the
\* client is left unchanged, and every search, also one that follows a failed
\* search, starts with an empty cache: it fetches the first board that only
\* cards reference.
C8_SearchAborts ==
    []SearchAbortState /\ [][client' = client]_vars

C8_Witness ==
    /\ SearchOp
    /\ op.after = "raise"
    /\ Len(sent) = 3
    /\ Succeeded(sent[2])
    /\ sent[2].url = <<BaseUrl, "boards/", "b1">>
    /\ outcome.exc = "Unauthorized"
    /\ NC = 3

====
